---- MODULE Spec2Model ----
(***************************************************************************)
(* runMOFA of mofa/core/build_model.py as a state machine: seeding,        *)
(* masking, node construction, Markov-blanket wiring, the inference engine *)
(* (BayesNet) and persistence.  One action per statement group of runMOFA; *)
(* the collaborators that live outside build_model.py (initModel, BayesNet,*)
(* maskData, saveModel) are modelled at their documented interface.        *)
(***************************************************************************)
EXTENDS Integers, Sequences, FiniteSets, TLC

\* ------------------------------------------------------------------ bounds
MaxSeed == 2
MaxClock == 2
MaxLen == 2
MaxFactors == 2
MaxIter == 3
ClockBase == 999998

\* ------------------------------------------------------- program constants
\* seed=None, the default of runMOFA's seed parameter
None == -1
\* time()*1000 % 1e6
SeedMod == 1000000

NodeNames == {"Z", "SW", "AlphaW", "Tau", "Theta", "Y"}
FactorNodes == {"Z", "SW", "AlphaW", "Theta"}

\* ------------------------------------------------------------------ inputs
\* An entry of data_opts: the key is absent, or present with no truthy /
\* with some truthy element (what any(...) reads).
MaskVals == {"absent", "falsy", "truthy"}

RECURSIVE SeqsUpTo(_, _)
SeqsUpTo(S, n) ==
    IF n = 0 THEN {<<>>}
    ELSE LET shorter == SeqsUpTo(S, n - 1)
         IN  shorter \cup {Append(s, x) : s \in {t \in shorter : Len(t) = n - 1}, x \in S}

\* Values a sparsity entry takes: 0, 1, and 2 for a value that is neither.
SparsityVals == {0, 1, 2}
Sparsities == SeqsUpTo(SparsityVals, MaxLen)

ScheduleTest == <<"SW", "Z", "AlphaW", "Theta", "Tau">>
ScheduleFull == <<"Y", "SW", "Z", "AlphaW", "Theta", "Tau">>
ScheduleArdZ == <<"Z", "AlphaZ", "SW">>
ScheduleShort == <<"SW", "Z">>
Schedules == {ScheduleTest, ScheduleFull, ScheduleArdZ, ScheduleShort}

\* The training options of the test script, with its maxiter scaled down
TrainTest ==
    [maxiter |-> MaxIter, forceiter |-> TRUE, elbofreq |-> 1, tolerance |-> 1,
     drop |-> FALSE, startdrop |-> 2, freqdrop |-> 1]

\* Training options; an option nothing reads (the tolerance under forceiter,
\* the drop schedule with no drop criterion) keeps the test script's value.
TrainOpts ==
    {o \in [maxiter : 1..MaxIter, forceiter : BOOLEAN, elbofreq : 1..2,
            tolerance : 1..2, drop : BOOLEAN, startdrop : 1..2, freqdrop : 1..2] :
        /\ o.forceiter => o.tolerance = TrainTest.tolerance
        /\ ~o.drop => o.startdrop = TrainTest.startdrop /\ o.freqdrop = TrainTest.freqdrop}

DataOpts == [maskAtRandom : MaskVals, maskNSamples : MaskVals]
DataTest == [maskAtRandom |-> "absent", maskNSamples |-> "absent"]

Seeds == {None} \cup (0..MaxSeed)

\* The calls of runMOFA: its arguments, and whether the directory of
\* data_opts["outfile"] exists.  The pre-training options vary around the
\* test script's training options, and the training options vary around its
\* data options.
FrontCalls ==
    [seed : {1}, data_opts : DataOpts, outdir : BOOLEAN,
     model_opts : [factors : {MaxFactors}, sparsity : Sparsities, schedule : Schedules],
     train_opts : {TrainTest}]

EngineCalls ==
    [seed : Seeds, data_opts : {DataTest}, outdir : {TRUE},
     model_opts : [factors : 1..MaxFactors, sparsity : {<<1, 0>>},
                   schedule : {ScheduleShort, ScheduleArdZ}],
     train_opts : TrainOpts]

Calls == FrontCalls \cup EngineCalls

\* ------------------------------------------------------------------- state
VARIABLES
    seedArg,      \* runMOFA's seed argument
    data_opts,    \* runMOFA's data_opts argument
    model_opts,   \* runMOFA's model_opts argument
    train_opts,   \* runMOFA's train_opts argument
    pc,           \* the statement of runMOFA that runs next
    now,          \* the clock time() reads, in milliseconds
    seed,         \* the local seed after line 31 (None before)
    rng,          \* what s.random.seed was called with (None before)
    outdir,       \* whether the output directory exists
    data,         \* "raw" or "masked"
    dim,          \* dim['K'] (0 before line 70)
    init,         \* the initModel object: its K and its seed
    nodes,        \* init.nodes: node name -> node (NoNode: no such key)
    mb,           \* node name -> its Markov blanket, a set of <<keyword, node name>>
                  \* ({}: addMarkovBlanket was not called on it)
    net,          \* the BayesNet engine
    saved,        \* whether saveModel wrote the model
    err,          \* the exception that ended the run ("" if none)
    run,          \* 1 for the first call, 2 for the repeated call
    first         \* <<>> or <<outcome of the first call>>

vars == <<seedArg, data_opts, model_opts, train_opts, pc, now, seed, rng, outdir,
          data, dim, init, nodes, mb, net, saved, err, run, first>>

args == <<seedArg, data_opts, model_opts, train_opts>>

NoNet ==
    [schedule |-> <<>>, state |-> "NONE", K |-> 0, options |-> TrainTest,
     iter |-> 0, pos |-> 0, elbo |-> <<>>]

NoInit == [seed |-> None, K |-> 0]

\* A name that is no key of the registry
NoNode == [sparsity |-> <<>>, K |-> 0, kind |-> "", value |-> "", upd |-> 0]

NoNodes == [n \in NodeNames |-> NoNode]
NoBlankets == [n \in NodeNames |-> {}]

Fresh ==
    /\ pc = "seed"
    /\ seed = None
    /\ rng = None
    /\ data = "raw"
    /\ dim = 0
    /\ init = NoInit
    /\ nodes = NoNodes
    /\ mb = NoBlankets
    /\ net = NoNet
    /\ saved = FALSE
    /\ err = ""

Init ==
    /\ \E c \in Calls :
        /\ seedArg = c.seed
        /\ data_opts = c.data_opts
        /\ model_opts = c.model_opts
        /\ train_opts = c.train_opts
        /\ outdir = c.outdir
    /\ now = ClockBase
    /\ Fresh
    /\ run = 1
    /\ first = <<>>

\* ------------------------------------------------------------ line 28 - 31
\* int(round(time()*1000) % 1e6) at clock reading t
TimeSeed(t) == t % SeedMod

UsesClock_bug(s) == s = None \/ s = 0 \/ s = 1

\* seed is None or seed==0
UsesClock(s) == s = None \/ s = 0

SetSeed ==
    /\ pc = "seed"
    /\ IF UsesClock(seedArg)
       THEN \E t \in now..(ClockBase + MaxClock) : now' = t /\ seed' = TimeSeed(t)
       ELSE seed' = seedArg /\ UNCHANGED now
    /\ rng' = seed'
    /\ pc' = "outdir"
    /\ UNCHANGED <<args, outdir, data, dim, init, nodes, mb, net, saved, err, run, first>>

\* ------------------------------------------------------------ line 38 - 41
MakeOutdir ==
    /\ pc = "outdir"
    /\ outdir' = TRUE
    /\ pc' = "mask"
    /\ UNCHANGED <<args, now, seed, rng, data, dim, init, nodes, mb, net, saved, err, run, first>>

\* ------------------------------------------------------------ line 47 - 50
Present(v) == v # "absent"

\* 'maskAtRandom' in data_opts or 'maskNSamples' in data_opts
MaskGuard(o) == Present(o.maskAtRandom) \/ Present(o.maskNSamples)

\* The key the condition of line 49 fails on ("" if it evaluates): the left
\* operand reads data_opts['maskAtRandom']; the right operand is read only
\* when the left one is falsy.
MaskKeyError(o) ==
    IF ~Present(o.maskAtRandom) THEN "KeyError: 'maskAtRandom'"
    ELSE IF o.maskAtRandom = "truthy" THEN ""
    ELSE IF ~Present(o.maskNSamples) THEN "KeyError: 'maskNSamples'"
    ELSE ""

\* any(data_opts['maskAtRandom']) or any(data_opts['maskNSamples'])
MaskWanted(o) == o.maskAtRandom = "truthy" \/ o.maskNSamples = "truthy"

Mask ==
    /\ pc = "mask"
    /\ IF ~MaskGuard(data_opts)
       THEN pc' = "dims" /\ UNCHANGED <<data, err>>
       ELSE IF MaskKeyError(data_opts) # ""
       THEN pc' = "error" /\ err' = MaskKeyError(data_opts) /\ UNCHANGED data
       ELSE /\ pc' = "dims"
            /\ data' = IF MaskWanted(data_opts) THEN "masked" ELSE data
            /\ UNCHANGED err
    /\ UNCHANGED <<args, now, seed, rng, outdir, dim, init, nodes, mb, net, saved, run, first>>

\* ------------------------------------------------------------ line 65 - 74
\* K = model_opts["factors"]; dim = {..., 'K':K}
DimK(o) == o.factors

InitModelK_bug(d) == d + 1

\* initModel(dim, data, likelihoods, seed=seed): the K the nodes are built with
InitModelK(d) == d

DefineModel ==
    /\ pc = "dims"
    /\ dim' = DimK(model_opts)
    /\ init' = [seed |-> seed, K |-> InitModelK(dim')]
    /\ pc' = "initZ"
    /\ UNCHANGED <<args, now, seed, rng, outdir, data, nodes, mb, net, saved, err, run, first>>

\* ------------------------------------------------------------ line 76 - 92
\* A node as initModel builds it: its class, its factor-indexed dimension
\* (0 for a node with none), Theta's sparsity / constant arguments, and the
\* iteration of its last update.
Node(kind, K, sp, val) ==
    [sparsity |-> sp, K |-> K, kind |-> kind, value |-> val, upd |-> 0]

Construct(at, name, node, next) ==
    /\ pc = at
    /\ nodes' = [nodes EXCEPT ![name] = node]
    /\ pc' = next
    /\ UNCHANGED <<args, now, seed, rng, outdir, data, dim, init, mb, net, saved, err, run, first>>

InitZ == Construct("initZ", "Z", Node("Z", init.K, <<>>, ""), "initSW")

InitSW == Construct("initSW", "SW", Node("SW", init.K, <<>>, ""), "initAlphaW")

InitAlphaW == Construct("initAlphaW", "AlphaW", Node("AlphaW_mk", init.K, <<>>, ""), "initTau")

InitTau == Construct("initTau", "Tau", Node("Tau", 0, <<>>, ""), "initTheta")

\* ----------------------------------------------------------- line 94 - 113
\* s.unique(model_opts['sparsity'])
Unique(sp) == {sp[i] : i \in DOMAIN sp}

ThetaChoice_bug(sp) ==
    IF Cardinality(Unique(sp)) = 1
    THEN IF Unique(sp) = {1} THEN "ThetaConst"
         ELSE IF Unique(sp) = {0} THEN "ThetaMixed"
         ELSE "none"
    ELSE "ThetaMixed"

\* The init method the sparsity array selects ("none": no branch is taken).
ThetaChoice(sp) ==
    IF Cardinality(Unique(sp)) = 1
    THEN IF Unique(sp) = {1} THEN "ThetaMixed"
         ELSE IF Unique(sp) = {0} THEN "ThetaConst"
         ELSE "none"
    ELSE "ThetaMixed"

\* initThetaMixed(..., sparsity=model_opts['sparsity'])
ThetaMixed(sp) == Node("ThetaMixed", init.K, sp, "")

\* initThetaConst(value=model_opts["initTheta"]['E'])
ThetaConst == Node("ThetaConst", init.K, <<>>, "initTheta.E")

InitTheta ==
    /\ pc = "initTheta"
    /\ nodes' = IF ThetaChoice(model_opts.sparsity) = "ThetaMixed"
                THEN [nodes EXCEPT !["Theta"] = ThetaMixed(model_opts.sparsity)]
                ELSE IF ThetaChoice(model_opts.sparsity) = "ThetaConst"
                THEN [nodes EXCEPT !["Theta"] = ThetaConst]
                ELSE nodes
    /\ pc' = "initY"
    /\ UNCHANGED <<args, now, seed, rng, outdir, data, dim, init, mb, net, saved, err, run, first>>

\* ---------------------------------------------------------- line 115 - 116
InitY == Construct("initY", "Y", Node("Y", 0, <<>>, ""), "wireZ")

\* ---------------------------------------------------------- line 118 - 125
\* init.getNodes(): the registry of the nodes built so far, by name
GetNodes == {n \in NodeNames : nodes[n].kind # ""}

\* The keyword arguments of each addMarkovBlanket call: <<keyword, node name>>
BlanketZ == {<<"SW", "SW">>, <<"Tau", "Tau">>, <<"Y", "Y">>}
BlanketTheta == {<<"SW", "SW">>}
BlanketAlphaW == {<<"SW", "SW">>}
BlanketSW ==
    {<<"Z", "Z">>, <<"Tau", "Tau">>, <<"Alpha", "AlphaW">>, <<"Y", "Y">>, <<"Theta", "Theta">>}
BlanketY == {<<"Z", "Z">>, <<"SW", "SW">>, <<"Tau", "Tau">>}
BlanketTau_bug == {<<"Z", "Z">>, <<"SW", "SW">>}
BlanketTau == {<<"Z", "Z">>, <<"SW", "SW">>, <<"Y", "Y">>}

\* The names nodes[...] is subscripted with in nodes[n].addMarkovBlanket(kw)
Subscripts(n, kw) == {n} \cup {p[2] : p \in kw}

LookupOk_bug(n, kw) == TRUE

\* Every subscript of the statement is a key of the registry.
LookupOk(n, kw) == Subscripts(n, kw) \subseteq GetNodes

Wire(at, n, kw, next) ==
    /\ pc = at
    /\ IF LookupOk(n, kw)
       THEN mb' = [mb EXCEPT ![n] = kw] /\ pc' = next /\ UNCHANGED err
       ELSE pc' = "error" /\ err' = "KeyError: node" /\ UNCHANGED mb
    /\ UNCHANGED <<args, now, seed, rng, outdir, data, dim, init, nodes, net, saved, run, first>>

WireZ == Wire("wireZ", "Z", BlanketZ, "wireTheta")

WireTheta == Wire("wireTheta", "Theta", BlanketTheta, "wireAlphaW")

WireAlphaW == Wire("wireAlphaW", "AlphaW", BlanketAlphaW, "wireSW")

WireSW == Wire("wireSW", "SW", BlanketSW, "wireY")

WireY == Wire("wireY", "Y", BlanketY, "wireTau")

WireTau == Wire("wireTau", "Tau", BlanketTau, "BayesNet")

\* ---------------------------------------------------------------- line 132
NetOptions_bug(o) == [o EXCEPT !.maxiter = o.maxiter + 1]

\* options=train_opts
NetOptions(o) == o

\* BayesNet(dim=dim, schedule=model_opts["schedule"], nodes=init.getNodes(),
\*          options=train_opts): the engine, INITIALIZED
NewBayesNet ==
    /\ pc = "BayesNet"
    /\ net' = [schedule |-> model_opts.schedule, state |-> "INITIALIZED", K |-> dim,
               options |-> NetOptions(train_opts), iter |-> 0, pos |-> 0, elbo |-> <<>>]
    /\ pc' = "iterate"
    /\ UNCHANGED <<args, now, seed, rng, outdir, data, dim, init, nodes, mb, saved, err, run, first>>

\* ---------------------------------------------------------------- line 145
\* net.iterate() is entered: INITIALIZED -> RUNNING, at the first iteration
Iterate ==
    /\ pc = "iterate"
    /\ net' = [net EXCEPT !.state = "RUNNING", !.iter = 1, !.pos = 0]
    /\ pc' = "running"
    /\ UNCHANGED <<args, now, seed, rng, outdir, data, dim, init, nodes, mb, saved, err, run, first>>

\* ------------------------------------------------- the engine's iterations
Min(a, b) == IF a < b THEN a ELSE b
Abs(a) == IF a < 0 THEN 0 - a ELSE a

\* The numbers the updates produce are a function of the generator's seed and
\* the iteration: the ELBO gained by iteration i, and the number of active
\* factors that meet a drop criterion at iteration i.
ElboGain(r, i) == (r + i) % 3

RECURSIVE Elbo(_, _)
Elbo(r, i) == IF i = 0 THEN 0 ELSE Elbo(r, i - 1) + ElboGain(r, i)

Inactive(r, i, K) == Min(K, (r + i) % 2)

\* starting at iteration startdrop and every freqdrop iterations thereafter
DropDue(o, i) == o.drop /\ i >= o.startdrop /\ (i - o.startdrop) % o.freqdrop = 0

\* The factor-indexed dimension of every node that has one becomes k, at once.
DropTo(k) == [n \in NodeNames |->
                 IF n \in FactorNodes \cap GetNodes THEN [nodes[n] EXCEPT !.K = k] ELSE nodes[n]]

\* Between two sweeps: the factor-drop event of this iteration, if one is due.
\* Dropping to zero active factors is fatal.
StartIteration ==
    /\ pc = "running"
    /\ net.pos = 0
    /\ LET k == IF DropDue(net.options, net.iter)
                THEN net.K - Inactive(rng, net.iter, net.K)
                ELSE net.K
       IN  /\ nodes' = DropTo(k)
           /\ IF k = 0
              THEN /\ net' = [net EXCEPT !.K = k]
                   /\ pc' = "error"
                   /\ err' = "no active factors"
              ELSE /\ net' = [net EXCEPT !.K = k, !.pos = 1]
                   /\ UNCHANGED <<pc, err>>
    /\ UNCHANGED <<args, now, seed, rng, outdir, data, dim, init, mb, saved, run, first>>

\* One node update of the sweep, in schedule order: the scheduled name is
\* looked up in the registry and the node is updated in place.
UpdateNode ==
    /\ pc = "running"
    /\ net.pos \in 1..Len(net.schedule)
    /\ LET name == net.schedule[net.pos]
       IN  IF name \in GetNodes
           THEN /\ nodes' = [nodes EXCEPT ![name].upd = net.iter]
                /\ net' = [net EXCEPT !.pos = net.pos + 1]
                /\ UNCHANGED <<pc, err>>
           ELSE /\ pc' = "error"
                /\ err' = "KeyError: schedule"
                /\ UNCHANGED <<nodes, net>>
    /\ UNCHANGED <<args, now, seed, rng, outdir, data, dim, init, mb, saved, run, first>>

\* The change between the last two recorded ELBO values is below tolerance.
Converged(h, o) ==
    /\ ~o.forceiter
    /\ Len(h) >= 2
    /\ Abs(h[Len(h)] - h[Len(h) - 1]) < o.tolerance

\* The end of an iteration: the ELBO is recorded every elbofreq iterations,
\* then the convergence check, then the iteration bound.
EndIteration ==
    /\ pc = "running"
    /\ net.pos = Len(net.schedule) + 1
    /\ LET recorded == net.iter % net.options.elbofreq = 0
           h == IF recorded THEN Append(net.elbo, Elbo(rng, net.iter)) ELSE net.elbo
       IN  IF recorded /\ Converged(h, net.options)
           THEN net' = [net EXCEPT !.elbo = h, !.state = "CONVERGED"] /\ pc' = "save"
           ELSE IF net.iter >= net.options.maxiter
           THEN net' = [net EXCEPT !.elbo = h, !.state = "MAX_ITER_REACHED"] /\ pc' = "save"
           ELSE /\ net' = [net EXCEPT !.elbo = h, !.iter = net.iter + 1, !.pos = 0]
                /\ UNCHANGED pc
    /\ UNCHANGED <<args, now, seed, rng, outdir, data, dim, init, nodes, mb, saved, err, run, first>>

\* ---------------------------------------------------------- line 162 - 167
SaveModel ==
    /\ pc = "save"
    /\ saved' = TRUE
    /\ pc' = "done"
    /\ UNCHANGED <<args, now, seed, rng, outdir, data, dim, init, nodes, mb, net, err, run, first>>

\* ------------------------------------------------------- the repeated call
Finished == pc \in {"done", "error"}

\* What a call leaves behind for its caller to compare.
Outcome ==
    [pc |-> pc, rng |-> rng, err |-> err, state |-> net.state, K |-> net.K,
     iter |-> net.iter, elbo |-> net.elbo]

\* runMOFA is called again with the same data, options and seed.
Rerun ==
    /\ Finished
    /\ run = 1
    /\ run' = 2
    /\ first' = <<Outcome>>
    /\ pc' = "seed"
    /\ seed' = None
    /\ rng' = None
    /\ data' = "raw"
    /\ dim' = 0
    /\ init' = NoInit
    /\ nodes' = NoNodes
    /\ mb' = NoBlankets
    /\ net' = NoNet
    /\ saved' = FALSE
    /\ err' = ""
    /\ UNCHANGED <<args, now, outdir>>

Step ==
    \/ SetSeed \/ MakeOutdir \/ Mask \/ DefineModel
    \/ InitZ \/ InitSW \/ InitAlphaW \/ InitTau \/ InitTheta \/ InitY
    \/ WireZ \/ WireTheta \/ WireAlphaW \/ WireSW \/ WireY \/ WireTau
    \/ NewBayesNet \/ Iterate \/ StartIteration \/ UpdateNode \/ EndIteration
    \/ SaveModel

Next == Step \/ Rerun

Spec == Init /\ [][Next]_vars

\* The interpreter runs the statements of a call one after another.
FairSpec == Spec /\ WF_vars(Step)

\* ================================================================== claims
Constructed == GetNodes
Wired == {n \in NodeNames : mb[n] # {}}
EngineStarted == net.state \in {"RUNNING", "CONVERGED", "MAX_ITER_REACHED"}
SameCall == run' = run

\* The nodes a blanket refers to
Targets(n) == {p[2] : p \in mb[n]}

\* The statements before the wiring step, and the wiring statements
BuildPcs == {"seed", "outdir", "mask", "dims", "initZ", "initSW", "initAlphaW",
             "initTau", "initTheta", "initY"}
WirePcs == {"wireZ", "wireTheta", "wireAlphaW", "wireSW", "wireY", "wireTau"}

\* ---- C1
C1_Order ==
    /\ (Wired # {} => NodeNames \subseteq Constructed)
    /\ (EngineStarted => Wired = NodeNames)

C1_NothingLate == (SameCall /\ EngineStarted) => (Constructed' = Constructed /\ mb' = mb)

\* C1: a Markov blanket is attached only once all six nodes exist, the
\* engine iterates only once all six nodes are wired, and once the engine has
\* started no node is constructed or wired again.
C1_WiringAfterConstruction == []C1_Order /\ [][C1_NothingLate]_vars

BothFinished == run = 2 /\ Finished /\ first # <<>>

SameResult ==
    /\ first[1].rng = rng
    /\ first[1].elbo = net.elbo
    /\ first[1].K = net.K
    /\ first[1].state = net.state

\* C3 as stated: for every seed the caller passes, 0 included, two calls with
\* the same arguments seed the generator alike and end with the same ELBO
\* and the same K.
C3_DeterministicAnySeed == (seedArg # None /\ BothFinished) => SameResult

\* C3 amended: for every nonzero seed the caller passes, two calls with the
\* same arguments seed the generator alike and end with the same ELBO and K.
C3_DeterministicNonzeroSeed == (seedArg # None /\ seedArg # 0 /\ BothFinished) => SameResult

C3_Witness ==
    /\ BothFinished
    /\ seedArg = 1
    /\ pc = "done"
    /\ first[1].pc = "done"
    /\ Len(net.elbo) >= 2
    /\ rng = 1

\* ---- C4
SomeNodeMissing == pc \notin BuildPcs /\ ~(NodeNames \subseteq Constructed)

\* C4: when a node the wiring step names was not constructed, the call ends
\* in the wiring step with an error: no engine is created, no iteration runs
\* and no model is saved.
C4_MissingNodeIsFatal ==
    SomeNodeMissing =>
        /\ pc \in WirePcs \cup {"error"}
        /\ net.state = "NONE"
        /\ net.iter = 0
        /\ ~saved

C4_Witness ==
    /\ pc = "error"
    /\ err = "KeyError: node"
    /\ "Theta" \notin Constructed
    /\ Constructed = NodeNames \ {"Theta"}
    /\ net.state = "NONE"

\* ---- C5
HasOther(sp) == \E i \in DOMAIN sp : sp[i] \notin {0, 1}
ThetaStepDone == "Tau" \in Constructed /\ pc # "initTheta"

\* C5: a sparsity array holding a value other than 0 or 1 is rejected before
\* a Theta node is built: the call has failed and no Theta node exists.
C5_OtherValuesRejected ==
    (HasOther(model_opts.sparsity) /\ ThetaStepDone) =>
        pc = "error" /\ "Theta" \notin Constructed

\* ---- C6
Aborts == {"no active factors", "KeyError: schedule"}

C6_Safe ==
    /\ net.iter <= train_opts.maxiter
    /\ net.state = "MAX_ITER_REACHED" => net.iter = train_opts.maxiter
    /\ train_opts.forceiter => net.state # "CONVERGED"
    /\ saved => net.state \in {"CONVERGED", "MAX_ITER_REACHED"}
    /\ (Finished /\ net.state # "NONE") =>
           \/ pc = "done" /\ saved /\ net.state \in {"CONVERGED", "MAX_ITER_REACHED"}
           \/ pc = "error" /\ ~saved /\ net.state = "RUNNING" /\ err \in Aborts

SharedK == IF net.state = "NONE" THEN dim ELSE net.K

KAgrees ==
    /\ \A n \in Constructed \cap FactorNodes : nodes[n].K = SharedK
    /\ (init.K # 0 => init.K = model_opts.factors)
    /\ (net.state = "INITIALIZED" => net.K = model_opts.factors)

KChangesBetweenSweeps ==
    (SameCall /\ net.state = "RUNNING" /\ net'.K # net.K) =>
        /\ net.pos = 0
        /\ net.iter >= train_opts.startdrop
        /\ (net.iter - train_opts.startdrop) % train_opts.freqdrop = 0
        /\ \A n \in Constructed \cap FactorNodes : nodes'[n].K = net'.K

ThetaIs(kind, sp, val) ==
    /\ "Theta" \in Constructed
    /\ nodes["Theta"].kind = kind
    /\ nodes["Theta"].sparsity = sp
    /\ nodes["Theta"].value = val

\* C8: for a sparsity array over {0,1}, the Theta node is the learned node
\* built by initThetaMixed with the array when all entries are 1, the
\* constant node pinned to initTheta['E'] when all are 0, and the mixed node
\* built by initThetaMixed with the array when both occur.
C8_ThetaBySparsity ==
    (ThetaStepDone /\ ~HasOther(model_opts.sparsity)) =>
        /\ Unique(model_opts.sparsity) = {1} =>
               ThetaIs("ThetaMixed", model_opts.sparsity, "")
        /\ Unique(model_opts.sparsity) = {0} =>
               ThetaIs("ThetaConst", <<>>, "initTheta.E")
        /\ Unique(model_opts.sparsity) = {0, 1} =>
               ThetaIs("ThetaMixed", model_opts.sparsity, "")

C8_Witness ==
    /\ pc = "initY"
    /\ model_opts.sparsity = <<0, 0>>
    /\ ThetaIs("ThetaConst", <<>>, "initTheta.E")

\* ---- C9
Symmetric == \A a \in Wired : \A b \in Wired : (a \in Targets(b)) <=> (b \in Targets(a))

BlanketWired ==
    Wired = NodeNames =>
        /\ Symmetric
        /\ Targets("SW") = {"Z", "Tau", "AlphaW", "Y", "Theta"}
        /\ "SW" \in Targets("Z")

BlanketKept == (SameCall /\ Wired = NodeNames) => mb' = mb

\* C9: once the six nodes are wired the blanket relation is symmetric, Z and
\* SW refer to each other, SW's blanket is {Z, Tau, AlphaW, Y, Theta}, and
\* nothing changes the relation afterwards.
C9_BlanketSymmetric == []BlanketWired /\ [][BlanketKept]_vars

C9_Witness ==
    /\ pc = "running"
    /\ net.iter >= 2
    /\ Wired = NodeNames
    /\ Symmetric

\* ---- C10
MaskStepDone == pc \notin {"seed", "outdir", "mask"}

\* C10: with none, one or both of the mask keys in data_opts the call gets
\* past the masking step, and the data is masked exactly when a present key
\* has a truthy entry.
C10_MaskNeverFails ==
    MaskStepDone =>
        /\ err \notin {"KeyError: 'maskAtRandom'", "KeyError: 'maskNSamples'"}
        /\ (data = "masked") <=> MaskWanted(data_opts)

====
